---- MODULE Spec2Model ----
(***************************************************************************)
(* Model of the deet debugger (proj-1/deet): the Debugger session of       *)
(* debugger.rs and the Inferior controller of inferior.rs, together with   *)
(* the traced child they drive through ptrace and waitpid.                 *)
(*                                                                         *)
(* A 64-bit word is the tuple of its eight bytes, least significant first  *)
(* (x86-64 is little-endian), so a word read at address base holds the     *)
(* byte of address base+i at index i.  Shifts in the source are by         *)
(* multiples of 8 bits, which are exact on this representation.            *)
(***************************************************************************)
EXTENDS Integers, Sequences, FiniteSets, TLC

VARIABLES
    target,        \* Debugger.target: the program image run launches
    breakpoints,   \* Debugger.breakpoints: Vec<usize>
    inferior,      \* Debugger.inferior: Option<Inferior>
    children,      \* every child process spawned so far, by pid (1..)
    out,           \* lines printed by the last command
    ops,           \* OS-level operations issued by the last command, in order
    dbg,           \* "prompt", "panicked" (fatal abort) or "exited" (quit returned)
    cmd,           \* the last command dispatched
    breakLog,      \* the break commands issued so far: whether the spec names an
                   \* address, and the ordinal printed (-1: none)
    patchLog       \* write_byte calls made by the byte-patch harness

vars == <<target, breakpoints, inferior, children, out, ops, dbg, cmd, breakLog, patchLog>>

----------------------------------------------------------------------------
(* Bounds of the model *)

MaxBreaks == 2      \* break commands per session
MaxRuns == 2        \* run commands per session (children spawned)
MaxPatches == 2     \* write_byte calls of the byte-patch harness

----------------------------------------------------------------------------
(* Program constants *)

WordSize == 8       \* size_of::<usize>() on x86-64
TrapByte == 204     \* 0xcc
ByteMask == 255     \* 0xff
BitsPerByte == 8    \* the 8 of "8 * byte_offset"
HexRadix == 16      \* from_str_radix(.., 16)
DecRadix == 10      \* str::parse::<usize>()

----------------------------------------------------------------------------
(* Bytes and 64-bit words *)

WordIdx == 0 .. (WordSize - 1)

RECURSIVE BitAnd(_, _, _)
\* a & b on the low n bits
BitAnd(a, b, n) ==
    IF n = 0 THEN 0
    ELSE ((a % 2) * (b % 2)) + 2 * BitAnd(a \div 2, b \div 2, n - 1)

RECURSIVE BitOr(_, _, _)
\* a | b on the low n bits
BitOr(a, b, n) ==
    IF n = 0 THEN 0
    ELSE (IF (a % 2) + (b % 2) > 0 THEN 1 ELSE 0) + 2 * BitOr(a \div 2, b \div 2, n - 1)

\* a u8 (or the literal 0xff) widened to u64
U64(b) == [i \in WordIdx |-> IF i = 0 THEN b ELSE 0]

\* w << bits and w >> bits, bits a multiple of 8 below 64
Shl(w, bits) ==
    [i \in WordIdx |-> IF i >= bits \div BitsPerByte THEN w[i - bits \div BitsPerByte] ELSE 0]

Shr(w, bits) ==
    [i \in WordIdx |-> IF i + bits \div BitsPerByte < WordSize
                         THEN w[i + bits \div BitsPerByte] ELSE 0]

WordAnd(w1, w2) == [i \in WordIdx |-> BitAnd(w1[i], w2[i], BitsPerByte)]

WordOr(w1, w2) == [i \in WordIdx |-> BitOr(w1[i], w2[i], BitsPerByte)]

WordNot(w) == [i \in WordIdx |-> ByteMask - w[i]]

\* "as u8"
AsU8(w) == w[0]

\* addr & (-(size_of::<usize>() as isize) as usize): clears the low three bits
align_addr_to_word(addr) == addr - (addr % WordSize)

----------------------------------------------------------------------------
(* The traced child: a process image of one-byte instructions *)

Op == [nop |-> 144, jmp |-> 235, call |-> 232, leave |-> 201, ret |-> 195,
       hlt |-> 244, pad |-> 0]

\* mapped text of the child: two words
Mapped == 8 .. 23

\* mapped stack of the child: the frame of greet, two words
Stack == 32 .. 47

Entry == 8          \* where the child stands at its post-exec stop (_start)

MainFrame == 48     \* rbp while main runs: the frame of main is not mapped
GreetFrame == 32    \* rbp while greet runs, when greet keeps a frame

\* targets of the jmp and call instructions, by the address of the instruction
JmpTarget == (9 :> 16) @@ (12 :> 18) @@ (17 :> 10)

\*  _start: 8 nop; 9 jmp main
\*  greet : 10 nop; 11 nop; 12 leave and return (hello) or jmp 18 (crash)
\*  main  : 16 nop; 17 call greet (hello) or jmp greet, which then keeps no
\*          frame (crash); 18 ret (hello: exit 0) or hlt (crash); 19 nop
Text(t) ==
    [a \in Mapped |->
        CASE a \in {8, 10, 11, 16, 19} -> Op.nop
          [] a = 9                 -> Op.jmp
          [] a = 12                -> IF t = "crash" THEN Op.jmp ELSE Op.leave
          [] a = 17                -> IF t = "crash" THEN Op.jmp ELSE Op.call
          [] a = 18                -> IF t = "crash" THEN Op.hlt ELSE Op.ret
          [] OTHER                 -> Op.pad]

\* the frame of greet: the saved rbp of main at [rbp], the return address
\* into main at [rbp+8], little-endian
StackImage ==
    [a \in Stack |->
        CASE a = GreetFrame            -> MainFrame
          [] a = GreetFrame + WordSize -> 18
          [] OTHER                     -> 0]

\* the memory of the child at its post-exec stop
Image(t) == [a \in Mapped \cup Stack |-> IF a \in Mapped THEN Text(t)[a] ELSE StackImage[a]]

Targets == {"hello", "crash"}

NoWord == << >>

\* "as usize" of a word read from the tracee; the model's addresses fit two
\* bytes, every larger word is one address beyond them
AsUsize(word) ==
    word[0] + (ByteMask + 1) * word[1]
      + (IF \E i \in WordIdx \ {0, 1} : word[i] # 0 THEN (ByteMask + 1) * (ByteMask + 1) ELSE 0)

\* the word at addr of memory mem
WordAt(mem, addr) == [i \in WordIdx |-> mem[addr + i]]

\* the word at addr is mapped in memory mem
WordIn(mem, addr) == addr \in DOMAIN mem /\ addr + WordSize - 1 \in DOMAIN mem

Event(kind, sig, rip, rbp, code) ==
    [kind |-> kind, sig |-> sig, rip |-> rip, rbp |-> rbp, code |-> code]

\* The CPU executes the instruction at rip of memory mem: "go" (rip advanced),
\* "stop" (a signal stops the traced child) or "exit".
ExecOne(mem, rip, rbp) ==
    IF rip \notin Mapped THEN Event("stop", "SIGSEGV", rip, rbp, 0)
    ELSE CASE mem[rip] = TrapByte -> Event("stop", "SIGTRAP", rip + 1, rbp, 0)
           [] mem[rip] = Op.nop   -> Event("go", "", rip + 1, rbp, 0)
           [] mem[rip] = Op.jmp /\ rip \in DOMAIN JmpTarget
                                  -> Event("go", "", JmpTarget[rip], rbp, 0)
           [] mem[rip] = Op.call /\ rip \in DOMAIN JmpTarget
                                  -> Event("go", "", JmpTarget[rip], GreetFrame, 0)
           [] mem[rip] = Op.leave /\ WordIn(mem, rbp) /\ WordIn(mem, rbp + WordSize)
                                  -> Event("go", "", AsUsize(WordAt(mem, rbp + WordSize)),
                                           AsUsize(WordAt(mem, rbp)), 0)
           [] mem[rip] = Op.ret   -> Event("exit", "", rip, rbp, 0)
           [] OTHER               -> Event("stop", "SIGSEGV", rip, rbp, 0)

Fuel == 12          \* longest instruction path of the images, with slack

RECURSIVE RunToEvent(_, _, _, _)
\* the child runs freely from rip until it stops or exits
RunToEvent(mem, rip, rbp, fuel) ==
    LET e == ExecOne(mem, rip, rbp)
    IN  IF e.kind = "go"
          THEN IF fuel = 0 THEN Event("running", "", e.rip, e.rbp, 0)
                           ELSE RunToEvent(mem, e.rip, e.rbp, fuel - 1)
          ELSE e

\* PTRACE_SINGLESTEP: one instruction, then a SIGTRAP stop
StepToEvent(mem, rip, rbp) ==
    LET e == ExecOne(mem, rip, rbp)
    IN  IF e.kind = "go" THEN Event("stop", "SIGTRAP", e.rip, e.rbp, 0) ELSE e

\* A child process.  state: "stop_pending" (stopped, not yet reported to waitpid),
\* "stopped" (in ptrace-stop, reported), "zombie" (dead, not yet reaped),
\* "reaped", "running" (never stops again).
Child(state, mem, rip, rbp, sig, code) ==
    [state |-> state, mem |-> mem, rip |-> rip, rbp |-> rbp, sig |-> sig, code |-> code]

\* a dead child has no address space and no registers
NoMem == [a \in {} |-> 0]

Zombie(sig, code) == Child("zombie", NoMem, 0, 0, sig, code)

Reaped == Child("reaped", NoMem, 0, 0, "", 0)

AfterEvent(c, e) ==
    CASE e.kind = "stop" -> Child("stop_pending", c.mem, e.rip, e.rbp, e.sig, 0)
      [] e.kind = "exit" -> Zombie("", e.code)
      [] OTHER           -> Child("running", c.mem, e.rip, e.rbp, "", 0)

----------------------------------------------------------------------------
(* The OS interface.  s = [children, ops]; every call is logged in s.ops. *)

OsOp(op, pid, addr, word, ok) ==
    [op |-> op, pid |-> pid, addr |-> addr, word |-> word, ok |-> ok,
     res |-> "", sig |-> ""]

\* a waitpid call with what it returned: res and, for a stop or a kill, the signal
WaitOp(pid, res, sig) ==
    [op |-> "waitpid", pid |-> pid, addr |-> 0, word |-> NoWord,
     ok |-> res \notin {"Err", "Block"}, res |-> res, sig |-> sig]

Log(s, o) == [s EXCEPT !.ops = Append(@, o)]

Alive(c) == c.state \in {"stop_pending", "stopped", "running"}

\* ptrace requests need the tracee in ptrace-stop (ESRCH otherwise)
Traceable(s, pid) == pid \in DOMAIN s.children /\ s.children[pid].state = "stopped"

\* ptrace::read: PTRACE_PEEKDATA of the word at addr
ptrace_read(s, pid, addr) ==
    LET ok == Traceable(s, pid) /\ WordIn(s.children[pid].mem, addr)
    IN  [ok |-> ok,
         word |-> IF ok THEN WordAt(s.children[pid].mem, addr) ELSE NoWord,
         s |-> Log(s, OsOp("peek", pid, addr, NoWord, ok))]

\* ptrace::write: PTRACE_POKEDATA of word at addr
ptrace_write(s, pid, addr, word) ==
    LET ok == Traceable(s, pid) /\ WordIn(s.children[pid].mem, addr)
        s1 == IF ok
                THEN [s EXCEPT !.children[pid].mem =
                        [a \in DOMAIN @ |-> IF a >= addr /\ a < addr + WordSize
                                            THEN word[a - addr] ELSE @[a]]]
                ELSE s
    IN  [ok |-> ok, s |-> Log(s1, OsOp("poke", pid, addr, word, ok))]

\* ptrace::getregs: the register file (rip, rbp)
ptrace_getregs(s, pid) ==
    LET ok == Traceable(s, pid)
    IN  [ok |-> ok, rip |-> IF ok THEN s.children[pid].rip ELSE 0,
         rbp |-> IF ok THEN s.children[pid].rbp ELSE 0,
         s |-> Log(s, OsOp("getregs", pid, 0, NoWord, ok))]

\* ptrace::setregs with regs.rip = rip
ptrace_setregs(s, pid, rip) ==
    LET ok == Traceable(s, pid)
        s1 == IF ok THEN [s EXCEPT !.children[pid].rip = rip] ELSE s
    IN  [ok |-> ok, s |-> Log(s1, OsOp("setregs", pid, rip, NoWord, ok))]

\* ptrace::cont(pid, None): the child runs until its next event
ptrace_cont(s, pid) ==
    LET ok == Traceable(s, pid)
        c == s.children[pid]
        s1 == IF ok
                THEN [s EXCEPT !.children[pid] = AfterEvent(c, RunToEvent(c.mem, c.rip, c.rbp, Fuel))]
                ELSE s
    IN  [ok |-> ok, s |-> Log(s1, OsOp("cont", pid, 0, NoWord, ok))]

\* ptrace::step(pid, None): the child executes one instruction
ptrace_step(s, pid) ==
    LET ok == Traceable(s, pid)
        c == s.children[pid]
        s1 == IF ok
                THEN [s EXCEPT !.children[pid] = AfterEvent(c, StepToEvent(c.mem, c.rip, c.rbp))]
                ELSE s
    IN  [ok |-> ok, s |-> Log(s1, OsOp("step", pid, 0, NoWord, ok))]

\* Child::kill: SIGKILL; fails (ESRCH) once the child is reaped
os_kill(s, pid) ==
    LET c == s.children[pid]
        ok == c.state # "reaped"
        s1 == IF Alive(c)
                THEN [s EXCEPT !.children[pid] = Zombie("SIGKILL", 0)]
                ELSE s
    IN  [ok |-> ok, s |-> Log(s1, OsOp("kill", pid, 0, NoWord, ok))]

\* waitpid(pid, None): res is "Stopped", "Exited", "Signaled", "Err" (ECHILD) or
\* "Block" (no event will ever come: the caller hangs)
os_waitpid(s, pid) ==
    LET c == s.children[pid]
        res == CASE c.state = "stop_pending" -> "Stopped"
                 [] c.state = "zombie" -> IF c.sig = "" THEN "Exited" ELSE "Signaled"
                 [] c.state = "reaped" -> "Err"
                 [] OTHER -> "Block"
        s1 == CASE res = "Stopped" -> [s EXCEPT !.children[pid].state = "stopped"]
                [] res \in {"Exited", "Signaled"} -> [s EXCEPT !.children[pid] = Reaped]
                [] OTHER -> s
    IN  [res |-> res, sig |-> c.sig, code |-> c.code,
         s |-> Log(s1, WaitOp(pid, res, IF res \in {"Stopped", "Signaled"} THEN c.sig ELSE ""))]

----------------------------------------------------------------------------
(* Inferior (inferior.rs) *)

Status(kind, sig, rip, code) == [kind |-> kind, sig |-> sig, rip |-> rip, code |-> code]

NoStatus == Status("", "", 0, 0)

EmptyMap == [a \in {} |-> 0]

\* struct Inferior { child, replaced_values }, wrapped in Option
SomeInferior(pid, rv) == [some |-> TRUE, child |-> pid, replaced_values |-> rv]

NoInferior == [some |-> FALSE, child |-> 0, replaced_values |-> EmptyMap]

\* HashMap::insert
MapInsert(m, k, v) == (k :> v) @@ m

\* Inferior::wait: res is "Ok" (with status), "Err", or "Hang" (waitpid never returns)
wait(s, pid) ==
    LET w == os_waitpid(s, pid)
    IN  CASE w.res = "Exited" ->
               [res |-> "Ok", status |-> Status("Exited", "", 0, w.code), s |-> w.s]
          [] w.res = "Signaled" ->
               [res |-> "Ok", status |-> Status("Signaled", w.sig, 0, 0), s |-> w.s]
          [] w.res = "Stopped" ->
               LET g == ptrace_getregs(w.s, pid)
               IN  IF g.ok
                     THEN [res |-> "Ok", status |-> Status("Stopped", w.sig, g.rip, 0), s |-> g.s]
                     ELSE [res |-> "Err", status |-> NoStatus, s |-> g.s]
          [] w.res = "Err" -> [res |-> "Err", status |-> NoStatus, s |-> w.s]
          [] OTHER -> [res |-> "Hang", status |-> NoStatus, s |-> w.s]

\* Inferior::cont
cont(s, pid) ==
    LET c == ptrace_cont(s, pid)
    IN  IF c.ok THEN wait(c.s, pid)
        ELSE [res |-> "Err", status |-> NoStatus, s |-> c.s]

\* Inferior::terminate: the result of kill is discarded
terminate(s, pid) == wait(os_kill(s, pid).s, pid)

\* Inferior::write_byte, with the old byte not masked out of the word
write_byte_NoMask(s, inf, addr, val) ==
    LET aligned_addr == align_addr_to_word(addr)
        byte_offset == addr - aligned_addr
        rd == ptrace_read(s, inf.child, aligned_addr)
    IN  IF ~rd.ok THEN [ok |-> FALSE, ret |-> 0, s |-> rd.s, inf |-> inf]
        ELSE
        LET word == rd.word
            origin_byte == AsU8(WordAnd(Shr(word, BitsPerByte * byte_offset), U64(ByteMask)))
            updated_word == WordOr(word, Shl(U64(val), BitsPerByte * byte_offset))
            wr == ptrace_write(rd.s, inf.child, aligned_addr, updated_word)
        IN  IF ~wr.ok THEN [ok |-> FALSE, ret |-> 0, s |-> wr.s, inf |-> inf]
            ELSE [ok |-> TRUE, ret |-> origin_byte, s |-> wr.s,
                  inf |-> IF val = TrapByte
                            THEN [inf EXCEPT !.replaced_values = MapInsert(@, addr, origin_byte)]
                            ELSE inf]

\* Inferior::write_byte, with the byte offset dropped (the aligned byte is patched)
write_byte_NoOffset(s, inf, addr, val) ==
    LET aligned_addr == align_addr_to_word(addr)
        byte_offset == 0
        rd == ptrace_read(s, inf.child, aligned_addr)
    IN  IF ~rd.ok THEN [ok |-> FALSE, ret |-> 0, s |-> rd.s, inf |-> inf]
        ELSE
        LET word == rd.word
            origin_byte == AsU8(WordAnd(Shr(word, BitsPerByte * byte_offset), U64(ByteMask)))
            masked_word == WordAnd(word, WordNot(Shl(U64(ByteMask), BitsPerByte * byte_offset)))
            updated_word == WordOr(masked_word, Shl(U64(val), BitsPerByte * byte_offset))
            wr == ptrace_write(rd.s, inf.child, aligned_addr, updated_word)
        IN  IF ~wr.ok THEN [ok |-> FALSE, ret |-> 0, s |-> wr.s, inf |-> inf]
            ELSE [ok |-> TRUE, ret |-> origin_byte, s |-> wr.s,
                  inf |-> IF val = TrapByte
                            THEN [inf EXCEPT !.replaced_values = MapInsert(@, addr, origin_byte)]
                            ELSE inf]

\* Inferior::write_byte, recording the address although the read failed
write_byte_RecordOnFailure(s, inf, addr, val) ==
    LET aligned_addr == align_addr_to_word(addr)
        byte_offset == addr - aligned_addr
        rd == ptrace_read(s, inf.child, aligned_addr)
    IN  IF ~rd.ok
          THEN [ok |-> FALSE, ret |-> 0, s |-> rd.s,
                inf |-> IF val = TrapByte
                          THEN [inf EXCEPT !.replaced_values = MapInsert(@, addr, Op.pad)]
                          ELSE inf]
        ELSE
        LET word == rd.word
            origin_byte == AsU8(WordAnd(Shr(word, BitsPerByte * byte_offset), U64(ByteMask)))
            masked_word == WordAnd(word, WordNot(Shl(U64(ByteMask), BitsPerByte * byte_offset)))
            updated_word == WordOr(masked_word, Shl(U64(val), BitsPerByte * byte_offset))
            wr == ptrace_write(rd.s, inf.child, aligned_addr, updated_word)
        IN  IF ~wr.ok THEN [ok |-> FALSE, ret |-> 0, s |-> wr.s, inf |-> inf]
            ELSE [ok |-> TRUE, ret |-> origin_byte, s |-> wr.s,
                  inf |-> IF val = TrapByte
                            THEN [inf EXCEPT !.replaced_values = MapInsert(@, addr, origin_byte)]
                            ELSE inf]

\* Inferior::write_byte: ok is FALSE for Err(_), ret is the Ok value
write_byte(s, inf, addr, val) ==
    LET aligned_addr == align_addr_to_word(addr)
        byte_offset == addr - aligned_addr
        rd == ptrace_read(s, inf.child, aligned_addr)
    IN  IF ~rd.ok THEN [ok |-> FALSE, ret |-> 0, s |-> rd.s, inf |-> inf]
        ELSE
        LET word == rd.word
            origin_byte == AsU8(WordAnd(Shr(word, BitsPerByte * byte_offset), U64(ByteMask)))
            masked_word == WordAnd(word, WordNot(Shl(U64(ByteMask), BitsPerByte * byte_offset)))
            updated_word == WordOr(masked_word, Shl(U64(val), BitsPerByte * byte_offset))
            wr == ptrace_write(rd.s, inf.child, aligned_addr, updated_word)
        IN  IF ~wr.ok THEN [ok |-> FALSE, ret |-> 0, s |-> wr.s, inf |-> inf]
            ELSE [ok |-> TRUE, ret |-> origin_byte, s |-> wr.s,
                  inf |-> IF val = TrapByte
                            THEN [inf EXCEPT !.replaced_values = MapInsert(@, addr, origin_byte)]
                            ELSE inf]

----------------------------------------------------------------------------
(* The byte-patch harness: write_byte applied to a stopped child, any address
   and byte.  SpecPatch is the specification of the claims about write_byte
   alone. *)

\* addresses tried: the byte below the text (unmapped), every offset of the
\* first word, the first byte of the second
PatchAddrs == 7 .. 16

PatchBytes == {Op.pad, TrapByte, ByteMask}

PatchImages == {Text("hello"), [a \in Mapped |-> ByteMask]}

PatchCall(addr, val, ok, ret, before, after, opsOf) ==
    [addr |-> addr, val |-> val, ok |-> ok, ret |-> ret,
     before |-> before, after |-> after, ops |-> opsOf]

InitPatch ==
    /\ target = "hello"
    /\ breakpoints = << >>
    /\ \E img \in PatchImages :
          children = << Child("stopped", img, Entry, MainFrame, "SIGTRAP", 0) >>
    /\ inferior = SomeInferior(1, EmptyMap)
    /\ out = << >>
    /\ ops = << >>
    /\ dbg = "prompt"
    /\ cmd = [kind |-> "patch", spec |-> << >>]
    /\ breakLog = << >>
    /\ patchLog = << >>

Patch(addr, val) ==
    /\ Len(patchLog) < MaxPatches
    /\ LET r == write_byte([children |-> children, ops |-> << >>], inferior, addr, val)
       IN  /\ children' = r.s.children
           /\ ops' = r.s.ops
           /\ inferior' = r.inf
           /\ patchLog' = Append(patchLog,
                 PatchCall(addr, val, r.ok, r.ret, children[1].mem, r.s.children[1].mem, r.s.ops))
    /\ UNCHANGED <<target, breakpoints, out, dbg, cmd, breakLog>>

NextPatch == \E addr \in PatchAddrs, val \in PatchBytes : Patch(addr, val)

SpecPatch == InitPatch /\ [][NextPatch]_vars

----------------------------------------------------------------------------
(* The symbol oracle (DwarfData) and address specs *)

Some(v) == [some |-> TRUE, val |-> v]

None == [some |-> FALSE, val |-> 0]

\* DwarfData::get_addr_for_line(None, line): main.c:3 is greet, main.c:7 the call
get_addr_for_line(line) ==
    CASE line = 3 -> Some(10)
      [] line = 7 -> Some(17)
      [] OTHER    -> None

\* DwarfData::get_addr_for_function(None, name)
get_addr_for_function(name) ==
    CASE name = <<"g", "r", "e", "e", "t">> -> Some(10)
      [] name = <<"m", "a", "i", "n">>      -> Some(16)
      [] OTHER                              -> None

\* DwarfData::get_function_from_addr: _start carries no debug information
get_function_from_addr(addr) ==
    CASE addr \in 10 .. 12 -> Some("greet")
      [] addr \in 16 .. 19 -> Some("main")
      [] OTHER             -> None

\* DwarfData::get_line_from_addr (the line number of main.c)
get_line_from_addr(addr) ==
    CASE addr \in 10 .. 12 -> Some(3)
      [] addr \in 16 .. 19 -> Some(7)
      [] OTHER             -> None

Digits == <<"0", "1", "2", "3", "4", "5", "6", "7", "8", "9",
            "a", "b", "c", "d", "e", "f">>

UpperDigits == <<"0", "1", "2", "3", "4", "5", "6", "7", "8", "9",
                 "A", "B", "C", "D", "E", "F">>

\* char::to_digit(radix): the value of c, or -1 when c is no digit of the radix
to_digit(c, radix) ==
    LET hit == {i \in 1 .. radix : Digits[i] = c \/ UpperDigits[i] = c}
    IN  IF hit = {} THEN -1 ELSE (CHOOSE i \in hit : TRUE) - 1

\* str::to_lowercase on the characters address specs are written in
to_lowercase(str) ==
    [i \in 1 .. Len(str) |->
        LET up == {j \in 1 .. Len(UpperDigits) : UpperDigits[j] = str[i]}
        IN  CASE up # {}      -> Digits[CHOOSE j \in up : TRUE]
              [] str[i] = "X" -> "x"
              [] OTHER        -> str[i]]

starts_with(str, prefix) ==
    Len(str) >= Len(prefix) /\ SubSeq(str, 1, Len(prefix)) = prefix

RECURSIVE FoldDigits(_, _, _)
\* the digits of str accumulated onto acc; -1 when one is no digit
FoldDigits(str, radix, acc) ==
    IF str = << >> THEN acc
    ELSE IF to_digit(Head(str), radix) < 0 THEN -1
    ELSE FoldDigits(Tail(str), radix, acc * radix + to_digit(Head(str), radix))

\* usize::from_str_radix(str, radix).ok(): the empty string is an error; one
\* leading "+" is accepted
from_str_radix(str, radix) ==
    LET digits == IF str # << >> /\ Head(str) = "+" THEN Tail(str) ELSE str
    IN  IF digits = << >> \/ FoldDigits(digits, radix, 0) < 0 THEN None
        ELSE Some(FoldDigits(digits, radix, 0))

\* Debugger::parse_addr, with a bad hex literal read as address 0 (unwrap_or)
parse_addr_Lenient(addr) ==
    IF starts_with(to_lowercase(addr), <<"0", "x">>)
      THEN IF from_str_radix(SubSeq(addr, 3, Len(addr)), HexRadix).some
             THEN from_str_radix(SubSeq(addr, 3, Len(addr)), HexRadix)
             ELSE Some(0)
    ELSE IF from_str_radix(addr, DecRadix).some
      THEN get_addr_for_line(from_str_radix(addr, DecRadix).val)
    ELSE get_addr_for_function(addr)

\* Debugger::parse_addr
parse_addr(addr) ==
    IF starts_with(to_lowercase(addr), <<"0", "x">>)
      THEN from_str_radix(SubSeq(addr, 3, Len(addr)), HexRadix)
    ELSE IF from_str_radix(addr, DecRadix).some
      THEN get_addr_for_line(from_str_radix(addr, DecRadix).val)
    ELSE get_addr_for_function(addr)

\* the address specs typed at the prompt that name no address
BadSpecs ==
    { <<"0", "x", "g">>, <<"9", "9">>, <<"n", "o", "s", "u", "c", "h">> }

\* the address specs typed at the prompt
AddrSpecs ==
    { <<"0", "x", "a">>,                 \* 0xa: greet
      <<"0", "X", "1", "2">>,            \* 0X12: the last instruction of main
      <<"0", "x", "4", "0">>,            \* 0x40: not mapped in the child
      <<"0", "x", "g">>,                 \* bad digit
      <<"7">>,                           \* line 7: the call in main
      <<"9", "9">>,                      \* no such line
      <<"g", "r", "e", "e", "t">>,
      <<"n", "o", "s", "u", "c", "h">> } \* no such function

----------------------------------------------------------------------------
(* Debugger (debugger.rs).  A handler maps the world W = [children, ops,
   inferior, breakpoints, out, dbg] at the prompt to the world when control
   is back at the prompt, or when the debugger has aborted or exited. *)

Line(t, addr, n, sig, fn) == [t |-> t, addr |-> addr, n |-> n, sig |-> sig, fn |-> fn]

Println(W, line) == [W EXCEPT !.out = Append(@, line)]

\* panic!, expect on Err, unwrap on None
Panic(W) == [W EXCEPT !.dbg = "panicked"]

\* a blocking call that never returns
Hang(W) == [W EXCEPT !.dbg = "hung"]

\* Debugger::print_status: the two unwraps abort when the oracle knows no
\* function or line for rip
print_status(W, status) ==
    CASE status.kind = "Exited" ->
           Println(W, Line("target exited", 0, status.code, "", ""))
      [] status.kind = "Signaled" ->
           Println(W, Line("target signaled(killed)", 0, 0, status.sig, ""))
      [] OTHER ->
           IF get_function_from_addr(status.rip).some /\ get_line_from_addr(status.rip).some
             THEN Println(W, Line("target stopped", status.rip,
                                  get_line_from_addr(status.rip).val, status.sig,
                                  get_function_from_addr(status.rip).val))
             ELSE Panic(W)

\* what the child does between spawn and the first wait of Inferior::new
FirstEvents == {"StoppedTrap", "StoppedOther", "Exited", "SignaledTrap", "SignaledOther",
                "WaitErr"}

SpawnedChild(t, first) ==
    CASE first = "StoppedOther"  -> Child("stop_pending", Image(t), Entry, MainFrame, "SIGSTOP", 0)
      [] first = "Exited"        -> Zombie("", 1)
      [] first = "SignaledTrap"  -> Zombie("SIGTRAP", 0)
      [] first = "SignaledOther" -> Zombie("SIGKILL", 0)
      [] OTHER                   -> Child("stop_pending", Image(t), Entry, MainFrame, "SIGTRAP", 0)

RECURSIVE InstallAll_StopAtFailure(_, _, _, _)
\* the for loop of Inferior::new, left at the first breakpoint that fails
InstallAll_StopAtFailure(W, inf, bps, i) ==
    IF i > Len(bps) THEN [W |-> W, inf |-> inf]
    ELSE LET r == write_byte(W, inf, bps[i], TrapByte)
         IN  IF r.ok THEN InstallAll_StopAtFailure(r.s, r.inf, bps, i + 1)
             ELSE [W |-> Println(r.s, Line("failed to set breakpoint", bps[i], 0, "", "")),
                   inf |-> r.inf]

RECURSIVE InstallAll(_, _, _, _)
\* the for loop of Inferior::new over breakpoints[i ..]; L = [W, inf]
InstallAll(W, inf, bps, i) ==
    IF i > Len(bps) THEN [W |-> W, inf |-> inf]
    ELSE LET r == write_byte(W, inf, bps[i], TrapByte)
         IN  InstallAll(IF r.ok THEN r.s
                        ELSE Println(r.s, Line("failed to set breakpoint", bps[i], 0, "", "")),
                        r.inf, bps, i + 1)

\* Inferior::new, lines 59-93, with any stop taken for the post-exec stop
MatchFirstWait_AnyStop(w, inferior0, bps) ==
    CASE w.res = "Hang" -> [res |-> "Panic", inf |-> NoInferior, W |-> Hang(w.s)]
      [] w.res = "Err" ->
           [res |-> "None", inf |-> NoInferior,
            W |-> Println(w.s, Line("failed to stop target programme", 0, 0, "", ""))]
      [] w.status.kind = "Exited" ->
           [res |-> "None", inf |-> NoInferior,
            W |-> Println(w.s, Line("target programme exited prematurely", 0,
                                    w.status.code, "", ""))]
      [] w.status.kind = "Signaled" /\ w.status.sig = "SIGTRAP" ->
           [res |-> "None", inf |-> NoInferior,
            W |-> Println(w.s, Line("target programme killed by SIGTRAP", 0, 0, "", ""))]
      [] w.status.kind = "Stopped" ->
           LET L == InstallAll(w.s, inferior0, bps, 1)
           IN  [res |-> "Some", inf |-> L.inf, W |-> L.W]
      [] OTHER ->
           [res |-> "None", inf |-> NoInferior,
            W |-> Println(w.s, Line("failed to create inferior", 0, 0, "", ""))]

\* Inferior::new, lines 59-93: match inferior.wait(None), w its result
MatchFirstWait(w, inferior0, bps) ==
    CASE w.res = "Hang" -> [res |-> "Panic", inf |-> NoInferior, W |-> Hang(w.s)]
      [] w.res = "Err" ->
           [res |-> "None", inf |-> NoInferior,
            W |-> Println(w.s, Line("failed to stop target programme", 0, 0, "", ""))]
      [] w.status.kind = "Exited" ->
           [res |-> "None", inf |-> NoInferior,
            W |-> Println(w.s, Line("target programme exited prematurely", 0,
                                    w.status.code, "", ""))]
      [] w.status.kind = "Signaled" /\ w.status.sig = "SIGTRAP" ->
           [res |-> "None", inf |-> NoInferior,
            W |-> Println(w.s, Line("target programme killed by SIGTRAP", 0, 0, "", ""))]
      [] w.status.kind = "Stopped" /\ w.status.sig = "SIGTRAP" ->
           LET L == InstallAll(w.s, inferior0, bps, 1)
           IN  [res |-> "Some", inf |-> L.inf, W |-> L.W]
      [] OTHER ->
           [res |-> "None", inf |-> NoInferior,
            W |-> Println(w.s, Line("failed to create inferior", 0, 0, "", ""))]

\* Inferior::new(target, args, breakpoints): res is "Some", "None" or "Panic"
new(W, t, bps, spawnOk, first) ==
    IF ~spawnOk
      THEN [res |-> "Panic", inf |-> NoInferior,
            W |-> Panic(Log(W, OsOp("spawn", 0, 0, NoWord, FALSE)))]
    ELSE
    LET pid == Len(W.children) + 1
        W1 == Log([W EXCEPT !.children = Append(@, SpawnedChild(t, first))],
                  OsOp("spawn", pid, 0, NoWord, TRUE))
        inferior0 == SomeInferior(pid, EmptyMap)
        w == IF first = "WaitErr"
               THEN [res |-> "Err", status |-> NoStatus,
                     s |-> Log(W1, WaitOp(pid, "Err", ""))]
               ELSE wait(W1, pid)
    IN  MatchFirstWait(w, inferior0, bps)

\* match inferior.cont() { Ok(status) => print_status, Err(err) => println }
ContAndReport(W) ==
    LET c == cont(W, W.inferior.child)
    IN  CASE c.res = "Ok"  -> print_status(c.s, c.status)
          [] c.res = "Err" -> Println(c.s, Line("failed to run command", 0, 0, "", ""))
          [] OTHER         -> Hang(c.s)

\* the terminate of the Run arm left out
TerminatePrevious_Skip(W) == W

\* DebuggerCommand::Run, lines 94-99: make sure no previous target exists
TerminatePrevious(W) ==
    IF ~W.inferior.some THEN W
    ELSE LET t == terminate(W, W.inferior.child)
         IN  CASE t.res = "Ok"  -> print_status(t.s, t.status)
               [] t.res = "Err" ->
                    Println(t.s, Line("failed to terminate previous target", 0, 0, "", ""))
               [] OTHER         -> Hang(t.s)

\* DebuggerCommand::Run(args)
RunCmd(W, t, spawnOk, first) ==
    LET W1 == TerminatePrevious(W)
    IN  IF W1.dbg # "prompt" THEN W1
        ELSE LET n == new(W1, t, W1.breakpoints, spawnOk, first)
             IN  CASE n.res = "Some" -> ContAndReport([n.W EXCEPT !.inferior = n.inf])
                   [] n.res = "None" ->
                        Println(n.W, Line("Error starting subprocess", 0, 0, "", ""))
                   [] OTHER -> n.W

\* DebuggerCommand::Continue, lines 124-136, with the breakpoint not reinstalled
ResumeBreakpoint_NoRearm(W, rip) ==
    LET pid == W.inferior.child
        val == W.inferior.replaced_values[rip]
        r == write_byte(W, W.inferior, rip, val)
    IN  IF ~r.ok THEN Panic(r.s)
        ELSE IF r.ret # TrapByte THEN Panic([r.s EXCEPT !.inferior = r.inf])
        ELSE
        LET W1 == [r.s EXCEPT !.inferior = r.inf]
            sr == ptrace_setregs(W1, pid, rip)
        IN  IF ~sr.ok THEN Panic(sr.s)
            ELSE
            LET st == ptrace_step(sr.s, pid)
            IN  IF ~st.ok THEN Panic(st.s)
                ELSE
                LET w == wait(st.s, pid)
                IN  CASE w.res = "Err"  -> Panic(w.s)
                      [] w.res = "Hang" -> Hang(w.s)
                      [] OTHER          -> w.s

\* DebuggerCommand::Continue, lines 124-136, with rip rewound before the
\* original byte is restored
ResumeBreakpoint_RewindFirst(W, rip) ==
    LET pid == W.inferior.child
        val == W.inferior.replaced_values[rip]
        sr == ptrace_setregs(W, pid, rip)
    IN  IF ~sr.ok THEN Panic(sr.s)
        ELSE
        LET r == write_byte(sr.s, sr.s.inferior, rip, val)
        IN  IF ~r.ok THEN Panic(r.s)
            ELSE IF r.ret # TrapByte THEN Panic([r.s EXCEPT !.inferior = r.inf])
            ELSE
            LET st == ptrace_step([r.s EXCEPT !.inferior = r.inf], pid)
            IN  IF ~st.ok THEN Panic(st.s)
                ELSE
                LET w == wait(st.s, pid)
                IN  CASE w.res = "Err"  -> Panic(w.s)
                      [] w.res = "Hang" -> Hang(w.s)
                      [] OTHER ->
                           LET r2 == write_byte(w.s, w.s.inferior, rip, TrapByte)
                           IN  IF ~r2.ok THEN Panic(r2.s)
                               ELSE [r2.s EXCEPT !.inferior = r2.inf]

\* DebuggerCommand::Continue, lines 124-136, with a failed re-arm passed over
ResumeBreakpoint_IgnoreRearmFailure(W, rip) ==
    LET pid == W.inferior.child
        val == W.inferior.replaced_values[rip]
        r == write_byte(W, W.inferior, rip, val)
    IN  IF ~r.ok THEN Panic(r.s)
        ELSE IF r.ret # TrapByte THEN Panic([r.s EXCEPT !.inferior = r.inf])
        ELSE
        LET W1 == [r.s EXCEPT !.inferior = r.inf]
            sr == ptrace_setregs(W1, pid, rip)
        IN  IF ~sr.ok THEN Panic(sr.s)
            ELSE
            LET st == ptrace_step(sr.s, pid)
            IN  IF ~st.ok THEN Panic(st.s)
                ELSE
                LET w == wait(st.s, pid)
                IN  CASE w.res = "Err"  -> Panic(w.s)
                      [] w.res = "Hang" -> Hang(w.s)
                      [] OTHER ->
                           LET r2 == write_byte(w.s, w.s.inferior, rip, TrapByte)
                           IN  [r2.s EXCEPT !.inferior = r2.inf]

\* DebuggerCommand::Continue, lines 124-136: the inferior stands behind the
\* trap byte of a breakpoint at rip
ResumeBreakpoint(W, rip) ==
    LET pid == W.inferior.child
        val == W.inferior.replaced_values[rip]
        r == write_byte(W, W.inferior, rip, val)
    IN  IF ~r.ok THEN Panic(r.s)
        ELSE IF r.ret # TrapByte THEN Panic([r.s EXCEPT !.inferior = r.inf])
        ELSE
        LET W1 == [r.s EXCEPT !.inferior = r.inf]
            sr == ptrace_setregs(W1, pid, rip)
        IN  IF ~sr.ok THEN Panic(sr.s)
            ELSE
            LET st == ptrace_step(sr.s, pid)
            IN  IF ~st.ok THEN Panic(st.s)
                ELSE
                LET w == wait(st.s, pid)
                IN  CASE w.res = "Err"  -> Panic(w.s)
                      [] w.res = "Hang" -> Hang(w.s)
                      [] OTHER ->
                           LET r2 == write_byte(w.s, w.s.inferior, rip, TrapByte)
                           IN  IF ~r2.ok THEN Panic(r2.s)
                               ELSE [r2.s EXCEPT !.inferior = r2.inf]

\* DebuggerCommand::Continue
ContinueCmd(W) ==
    IF ~W.inferior.some
      THEN Println(W, Line("please run target first", 0, 0, "", ""))
    ELSE
    LET g == ptrace_getregs(W, W.inferior.child)
    IN  IF ~g.ok THEN Panic(g.s)
        ELSE
        LET rip == g.rip - 1
            W1 == IF rip \in DOMAIN g.s.inferior.replaced_values
                    THEN ResumeBreakpoint(g.s, rip)
                    ELSE g.s
        IN  IF W1.dbg # "prompt" THEN W1 ELSE ContAndReport(W1)

\* DebuggerCommand::Breakpoint(s), consuming an ordinal for an unresolved spec too
BreakpointCmd_CountsInvalid(W, spec) ==
    LET p == parse_addr(spec)
    IN  IF ~p.some
          THEN Println([W EXCEPT !.breakpoints = Append(@, 0)],
                       Line("invalid breakpoint format", 0, 0, "", ""))
        ELSE
        LET W1 == [W EXCEPT !.breakpoints = Append(@, p.val)]
            r == write_byte(W1, W1.inferior, p.val, TrapByte)
            W2 == CASE ~W1.inferior.some -> W1
                    [] r.ok  -> [r.s EXCEPT !.inferior = r.inf]
                    [] OTHER -> Println(r.s, Line("failed to set breakpoint", p.val, 0, "", ""))
        IN  Println(W2, Line("set breakpoint", p.val, Len(W2.breakpoints) - 1, "", ""))

\* DebuggerCommand::Breakpoint(s)
BreakpointCmd(W, spec) ==
    LET p == parse_addr(spec)
    IN  IF ~p.some THEN Println(W, Line("invalid breakpoint format", 0, 0, "", ""))
        ELSE
        LET W1 == [W EXCEPT !.breakpoints = Append(@, p.val)]
            r == write_byte(W1, W1.inferior, p.val, TrapByte)
            W2 == CASE ~W1.inferior.some -> W1
                    [] r.ok  -> [r.s EXCEPT !.inferior = r.inf]
                    [] OTHER -> Println(r.s, Line("failed to set breakpoint", p.val, 0, "", ""))
        IN  Println(W2, Line("set breakpoint", p.val, Len(W2.breakpoints) - 1, "", ""))

RECURSIVE PrintFrames_SwappedSlots(_, _, _, _)
\* the loop of Inferior::print_backtrace, taking the return address from [rbp]
\* and the saved frame pointer from [rbp+8]
PrintFrames_SwappedSlots(W, pid, rip, rbp) ==
    LET func == get_function_from_addr(rip)
        line == get_line_from_addr(rip)
    IN  IF ~func.some \/ ~line.some THEN [res |-> "Panic", W |-> Panic(W)]
        ELSE
        LET W1 == Println(W, Line("%rip", rip, line.val, "", func.val))
        IN  IF func.val = "main" THEN [res |-> "Ok", W |-> W1]
            ELSE
            LET r1 == ptrace_read(W1, pid, rbp + WordSize)
            IN  IF ~r1.ok THEN [res |-> "Err", W |-> r1.s]
                ELSE
                LET r2 == ptrace_read(r1.s, pid, rbp)
                IN  IF ~r2.ok THEN [res |-> "Err", W |-> r2.s]
                    ELSE PrintFrames_SwappedSlots(r2.s, pid, AsUsize(r2.word), AsUsize(r1.word))

RECURSIVE PrintFrames(_, _, _, _)
\* the loop of Inferior::print_backtrace, lines 128-141, entered with rip and rbp
PrintFrames(W, pid, rip, rbp) ==
    LET func == get_function_from_addr(rip)
        line == get_line_from_addr(rip)
    IN  IF ~func.some \/ ~line.some THEN [res |-> "Panic", W |-> Panic(W)]
        ELSE
        LET W1 == Println(W, Line("%rip", rip, line.val, "", func.val))
        IN  IF func.val = "main" THEN [res |-> "Ok", W |-> W1]
            ELSE
            LET r1 == ptrace_read(W1, pid, rbp + WordSize)
            IN  IF ~r1.ok THEN [res |-> "Err", W |-> r1.s]
                ELSE
                LET r2 == ptrace_read(r1.s, pid, rbp)
                IN  IF ~r2.ok THEN [res |-> "Err", W |-> r2.s]
                    ELSE PrintFrames(r2.s, pid, AsUsize(r1.word), AsUsize(r2.word))

\* Inferior::print_backtrace: res is "Ok", "Err" or "Panic"
print_backtrace(W, pid) ==
    LET g1 == ptrace_getregs(W, pid)
    IN  IF ~g1.ok THEN [res |-> "Err", W |-> g1.s]
        ELSE
        LET g2 == ptrace_getregs(g1.s, pid)
        IN  IF ~g2.ok THEN [res |-> "Err", W |-> g2.s]
            ELSE PrintFrames(g2.s, pid, g1.rip, g2.rbp)

\* DebuggerCommand::BackTrace: unwrap on the Option; the Result is discarded
BackTraceCmd(W) ==
    IF ~W.inferior.some THEN Panic(W)
    ELSE print_backtrace(W, W.inferior.child).W

\* DebuggerCommand::Quit: unwrap on the Option, then terminate and return
QuitCmd(W) ==
    IF ~W.inferior.some THEN Panic(W)
    ELSE LET t == terminate(W, W.inferior.child)
         IN  CASE t.res = "Ok" ->
                    LET W1 == print_status(t.s, t.status)
                    IN  IF W1.dbg = "prompt" THEN [W1 EXCEPT !.dbg = "exited"] ELSE W1
               [] t.res = "Err" ->
                    [Println(t.s, Line("failed to terminate target", 0, 0, "", ""))
                       EXCEPT !.dbg = "exited"]
               [] OTHER -> Hang(t.s)

----------------------------------------------------------------------------
(* The session: one action per command read by get_next_command *)

World ==
    [children |-> children, ops |-> << >>, inferior |-> inferior,
     breakpoints |-> breakpoints, out |-> << >>, dbg |-> dbg]

Command(kind, spec) == [kind |-> kind, spec |-> spec]

Becomes(W) ==
    /\ children' = W.children
    /\ ops' = W.ops
    /\ inferior' = W.inferior
    /\ breakpoints' = W.breakpoints
    /\ out' = W.out
    /\ dbg' = W.dbg

\* the ordinal of the "set breakpoint" line among lines, -1 when there is none
OrdinalPrinted(lines) ==
    LET hit == {i \in 1 .. Len(lines) : lines[i].t = "set breakpoint"}
    IN  IF hit = {} THEN -1 ELSE lines[CHOOSE i \in hit : TRUE].n

\* Debugger::new
Init ==
    /\ target \in Targets
    /\ breakpoints = << >>
    /\ inferior = NoInferior
    /\ children = << >>
    /\ out = << >>
    /\ ops = << >>
    /\ dbg = "prompt"
    /\ cmd = Command("", << >>)
    /\ breakLog = << >>
    /\ patchLog = << >>

Run(spawnOk, first) ==
    /\ dbg = "prompt"
    /\ Len(children) < MaxRuns
    /\ Becomes(RunCmd(World, target, spawnOk, first))
    /\ cmd' = Command("run", << >>)
    /\ UNCHANGED <<target, breakLog, patchLog>>

Continue ==
    /\ dbg = "prompt"
    /\ Becomes(ContinueCmd(World))
    /\ cmd' = Command("continue", << >>)
    /\ UNCHANGED <<target, breakLog, patchLog>>

Break(spec) ==
    /\ dbg = "prompt"
    /\ Len(breakLog) < MaxBreaks
    /\ Becomes(BreakpointCmd(World, spec))
    /\ cmd' = Command("break", spec)
    /\ breakLog' = Append(breakLog, [valid |-> spec \notin BadSpecs, n |-> OrdinalPrinted(out')])
    /\ UNCHANGED <<target, patchLog>>

Quit ==
    /\ dbg = "prompt"
    /\ Becomes(QuitCmd(World))
    /\ cmd' = Command("quit", << >>)
    /\ UNCHANGED <<target, breakLog, patchLog>>

BackTrace ==
    /\ dbg = "prompt"
    /\ Becomes(BackTraceCmd(World))
    /\ cmd' = Command("backtrace", << >>)
    /\ UNCHANGED <<target, breakLog, patchLog>>

Next ==
    \/ \E spawnOk \in BOOLEAN, first \in FirstEvents : Run(spawnOk, first)
    \/ Continue
    \/ BackTrace
    \/ \E spec \in AddrSpecs : Break(spec)
    \/ Quit

Spec == Init /\ [][Next]_vars

----------------------------------------------------------------------------
(* Properties *)

Last(seq) == seq[Len(seq)]

\* the child of the session's controller
Tracee == children[inferior.child]

\* a command has completed and the session's tracee is stopped
StoppedAtPrompt ==
    dbg = "prompt" /\ inferior.some /\ Tracee.state = "stopped"

OpIdx(name) == {j \in 1 .. Len(ops) : ops[j].op = name}

\* C1 (shadow consistency): whenever a command has completed and the tracee is
\* stopped, every key of replaced_values is a mapped address of the tracee that
\* holds the trap byte 0xcc.
C1_ShadowConsistency ==
    StoppedAtPrompt =>
        \A a \in DOMAIN inferior.replaced_values :
            a \in Mapped /\ Tracee.mem[a] = TrapByte

\* a continue has crossed a breakpoint (restore, step, re-arm) and the tracee
\* stopped again, with two breakpoints in the map
C1_Witness ==
    /\ StoppedAtPrompt
    /\ cmd.kind = "continue"
    /\ OpIdx("step") # {}
    /\ Cardinality(DOMAIN inferior.replaced_values) >= 2
    /\ \E a \in DOMAIN inferior.replaced_values : inferior.replaced_values[a] # TrapByte

\* C2 (patch round-trip): two consecutive write_byte calls at the same mapped
\* address A with bytes V1 then V2 both succeed, leave V2 at A, the first
\* returns the byte that was at A before it and the second returns V1.
C2_PatchRoundTrip ==
    \A i \in 1 .. (Len(patchLog) - 1) :
        (patchLog[i].addr = patchLog[i + 1].addr /\ patchLog[i].addr \in Mapped) =>
            /\ patchLog[i].ok /\ patchLog[i + 1].ok
            /\ patchLog[i + 1].after[patchLog[i].addr] = patchLog[i + 1].val
            /\ patchLog[i].ret = patchLog[i].before[patchLog[i].addr]
            /\ patchLog[i + 1].ret = patchLog[i].val

\* two different bytes, both different from the byte found, written at an
\* unaligned address
C2_Witness ==
    \E i \in 1 .. (Len(patchLog) - 1) :
        /\ patchLog[i].addr = patchLog[i + 1].addr
        /\ patchLog[i].addr % WordSize # 0
        /\ patchLog[i].ok /\ patchLog[i + 1].ok
        /\ patchLog[i].val # patchLog[i + 1].val
        /\ patchLog[i].before[patchLog[i].addr] \notin {patchLog[i].val, patchLog[i + 1].val}

\* the word that holds addr: the multiple of the word size at or below it
WordBase(addr) ==
    CHOOSE b \in 0 .. addr : b % WordSize = 0 /\ b <= addr /\ addr < b + WordSize

\* C3 (word alignment): write_byte(A, V), A at any byte offset of its word,
\* reads and writes only the word at A rounded down to a multiple of 8; on a
\* mapped address it reads that word once, writes it once, sets the byte at A
\* to V and changes no other byte of the tracee; a failed call changes nothing.
C3_WordAlignment ==
    \A i \in 1 .. Len(patchLog) :
        LET c == patchLog[i]
        IN  /\ \A j \in 1 .. Len(c.ops) :
                  c.ops[j].op \in {"peek", "poke"} /\ c.ops[j].addr = WordBase(c.addr)
            /\ c.addr \in Mapped => c.ok
            /\ c.ok => /\ Len(c.ops) = 2
                       /\ c.ops[1].op = "peek" /\ c.ops[2].op = "poke"
                       /\ c.after = [c.before EXCEPT ![c.addr] = c.val]
            /\ ~c.ok => c.after = c.before

\* a byte written at offset 7 of a word whose other bytes differ from it
C3_Witness ==
    \E i \in 1 .. Len(patchLog) :
        /\ patchLog[i].ok
        /\ patchLog[i].addr % WordSize = WordSize - 1
        /\ \A a \in Mapped : patchLog[i].before[a] # patchLog[i].val
        /\ patchLog[i].after[patchLog[i].addr] = patchLog[i].val

\* the number of break commands before the k-th whose spec names an address
ValidBefore(k) == Cardinality({j \in 1 .. (k - 1) : breakLog[j].valid})

\* C4 as stated (ordinal monotonicity): the k-th break command of the session
\* is assigned ordinal k-1, whether or not its spec or an earlier one resolved.
C4_OrdinalIsCommandIndex ==
    \A k \in 1 .. Len(breakLog) : breakLog[k].n = k - 1

\* C4 as amended: a break command whose spec resolves is assigned the number
\* of earlier break commands whose spec resolved, duplicates included; a break
\* command whose spec does not resolve is assigned no ordinal.
C4_OrdinalCountsResolved ==
    \A k \in 1 .. Len(breakLog) :
        breakLog[k].n = IF breakLog[k].valid THEN ValidBefore(k) ELSE -1

\* a resolvable break after an unresolvable one and a duplicate address
C4_Witness ==
    /\ Len(breakLog) >= 2
    /\ ~breakLog[1].valid
    /\ breakLog[2].valid /\ breakLog[2].n = 0
    /\ cmd.kind = "break"

InvalidLine == Line("invalid breakpoint format", 0, 0, "", "")

\* C5 (unresolved break): a break command whose spec names no address prints
\* only "invalid breakpoint format", issues no tracee operation and leaves the
\* breakpoint list, the controller with its shadow map, and every child
\* unchanged.
C5_InvalidBreakNoChange ==
    [][(cmd'.kind = "break" /\ cmd'.spec \in BadSpecs /\ breakLog' # breakLog) =>
          /\ out' = <<InvalidLine>>
          /\ ops' = << >>
          /\ dbg' = dbg
          /\ UNCHANGED <<breakpoints, inferior, children>>]_vars

\* an unresolvable break issued with breakpoints set and a stopped tracee
C5_Witness ==
    /\ cmd.kind = "break" /\ cmd.spec \in BadSpecs
    /\ StoppedAtPrompt
    /\ breakpoints # << >>
    /\ DOMAIN inferior.replaced_values # {}
    /\ out = <<InvalidLine>>

\* C6 (re-run replaces the inferior): the session holds at most one controller,
\* and a run issued while a controller exists first kills its child, then
\* waits for it, and reports the status or the termination error, all before
\* any spawn; the old child is dead when the command is over and a controller
\* installed by the command holds another child.
C6_RerunReplaces ==
    [][(cmd'.kind = "run" /\ inferior.some) =>
          /\ Len(ops') >= 2
          /\ ops'[1].op = "kill" /\ ops'[1].pid = inferior.child
          /\ ops'[2].op = "waitpid" /\ ops'[2].pid = inferior.child
          /\ \A j \in 1 .. Len(ops') : ops'[j].op = "spawn" => j > 2
          /\ out' # << >>
          /\ out'[1].t \in {"target exited", "target signaled(killed)",
                            "failed to terminate previous target"}
          /\ ops'[2].ok \/ ~ops'[1].ok
          /\ ~Alive(children'[inferior.child])
          /\ inferior'.some /\ Alive(children'[inferior'.child])
                => inferior'.child # inferior.child]_vars

\* a second run killed a stopped first child and launched a second one
C6_Witness ==
    /\ cmd.kind = "run"
    /\ Len(children) = 2
    /\ Len(ops) >= 3
    /\ ops[1].op = "kill" /\ ops[1].ok /\ ops[1].pid = 1
    /\ ops[2].op = "waitpid" /\ ops[2].ok
    /\ ops[3].op = "spawn" /\ ops[3].ok
    /\ out[1].t = "target signaled(killed)"
    /\ children[1] = Reaped
    /\ inferior.some /\ inferior.child = 2 /\ Tracee.state = "stopped"

\* the run command launched a child and the session's controller holds it
LaunchSucceeded ==
    /\ cmd.kind = "run"
    /\ inferior.some
    /\ \E j \in OpIdx("spawn") : ops[j].ok /\ ops[j].pid = inferior.child

\* poke j of the last command writes the trap byte at address a of child pid
PokesTrap(j, pid, a) ==
    /\ ops[j].op = "poke" /\ ops[j].ok /\ ops[j].pid = pid
    /\ ops[j].addr <= a /\ a < ops[j].addr + WordSize
    /\ ops[j].word[a - ops[j].addr] = TrapByte

\* C7 (launch installs the accumulated breakpoints): on a successful run, after
\* the first wait on the new child and before the first continue, every mapped
\* address of the breakpoint list is written with 0xcc in the new child and is
\* not overwritten again; each address that cannot be patched is reported; the
\* controller holds the new child.
C7_RunInstallsAll ==
    LaunchSucceeded =>
        LET sp == CHOOSE j \in OpIdx("spawn") : TRUE
            pid == inferior.child
            fw == CHOOSE j \in OpIdx("waitpid") :
                      j > sp /\ \A l \in OpIdx("waitpid") : l > sp => j <= l
        IN  /\ OpIdx("cont") # {}
            /\ \A ct \in OpIdx("cont") :
                 \A i \in 1 .. Len(breakpoints) :
                    IF breakpoints[i] \in Mapped
                      THEN \E j \in (fw + 1) .. (ct - 1) :
                              /\ PokesTrap(j, pid, breakpoints[i])
                              /\ \A l \in j .. (ct - 1) :
                                    (ops[l].op = "poke" /\ ops[l].addr = ops[j].addr)
                                        => PokesTrap(l, pid, breakpoints[i])
                      ELSE \E l \in 1 .. Len(out) :
                              out[l] = Line("failed to set breakpoint", breakpoints[i], 0, "", "")

\* a launch whose list holds an unmapped address before a mapped one
C7_Witness ==
    /\ LaunchSucceeded
    /\ \E i, j \in 1 .. Len(breakpoints) :
          i < j /\ breakpoints[i] \notin Mapped /\ breakpoints[j] \in Mapped

\* C8 as stated: when the tracee stopped by executing the trap byte of the
\* breakpoint at address A, the "target stopped" line names A.
C8_StopPrintsBreakpointAddress ==
    (/\ StoppedAtPrompt
     /\ cmd.kind \in {"run", "continue"}
     /\ out # << >>
     /\ Last(out).t = "target stopped" /\ Last(out).sig = "SIGTRAP"
     /\ Tracee.rip - 1 \in DOMAIN inferior.replaced_values)
        => Last(out).addr = Tracee.rip - 1

\* C9 as stated: quit exits the session normally in every session state.
C9_QuitExitsNormally ==
    cmd.kind = "quit" => dbg = "exited"

\* the run command did not end with a controller for a child it spawned
LaunchFailed ==
    /\ cmd.kind = "run"
    /\ \/ \E j \in OpIdx("spawn") : ~ops[j].ok
       \/ ~inferior.some
       \/ \A j \in OpIdx("spawn") : ops[j].pid # inferior.child

\* C10 as stated: a launch failure is not fatal and leaves the session at the
\* prompt with no controller.
C10_LaunchFailureLeavesNoController ==
    LaunchFailed => (dbg = "prompt" /\ ~inferior.some)

\* the spawn of the last command succeeded at op sp and the first wait on the
\* new child is the op after it
FirstWait(sp) == sp + 1

\* the session holds the controller of the child spawned at op sp
HoldsControllerOf(sp) ==
    inferior.some /\ inferior.child = ops[sp].pid

\* C11 (launch succeeds only on the post-exec trap stop): a run command whose
\* spawn succeeded waits once on the new child first, and the session holds a
\* controller for that child exactly when this first wait reported a stop by
\* SIGTRAP; an exit, a kill by any signal, a stop by another signal or a wait
\* error leaves no controller for the child.
C11_LaunchIffTrapStop ==
    cmd.kind = "run" =>
        \A sp \in OpIdx("spawn") : ops[sp].ok =>
            /\ FirstWait(sp) <= Len(ops)
            /\ ops[FirstWait(sp)].op = "waitpid"
            /\ ops[FirstWait(sp)].pid = ops[sp].pid
            /\ HoldsControllerOf(sp) <=>
                  (ops[FirstWait(sp)].res = "Stopped" /\ ops[FirstWait(sp)].sig = "SIGTRAP")
            /\ ops[FirstWait(sp)].res \in {"Exited", "Signaled", "Err"} => ~HoldsControllerOf(sp)

\* a launch whose first wait reports a stop by a signal other than SIGTRAP
\* returns no controller
C11_Witness ==
    /\ cmd.kind = "run"
    /\ dbg = "prompt"
    /\ \E sp \in OpIdx("spawn") :
          /\ ops[sp].ok
          /\ ops[FirstWait(sp)].op = "waitpid"
          /\ ops[FirstWait(sp)].res = "Stopped"
          /\ ops[FirstWait(sp)].sig # "SIGTRAP"
          /\ ~HoldsControllerOf(sp)

\* op o is a successful call named name on child pid
IsOp(o, name, pid) == o.op = name /\ o.pid = pid /\ o.ok

\* ops j, j+1 of log o are write_byte(a, b) on child pid: the word of a is read,
\* then written with b at a
IsWriteByte(o, j, pid, a, b) ==
    /\ IsOp(o[j], "peek", pid) /\ o[j].addr = align_addr_to_word(a)
    /\ IsOp(o[j + 1], "poke", pid) /\ o[j + 1].addr = align_addr_to_word(a)
    /\ o[j + 1].word[a - align_addr_to_word(a)] = b

\* ops j.. of log o are Inferior::wait on child pid and end the log: waitpid,
\* then the registers are read for the status when it is a stop
IsLastWait(o, j, pid) ==
    /\ IsOp(o[j], "waitpid", pid)
    /\ Len(o) = (IF o[j].res = "Stopped" THEN j + 1 ELSE j)
    /\ o[j].res = "Stopped" => IsOp(o[j + 1], "getregs", pid)

\* the OS calls of a continue that crosses the breakpoint at a, whose recorded byte is b
ResumeOrder(o, pid, a, b) ==
    /\ Len(o) >= 11
    /\ IsOp(o[1], "getregs", pid)
    /\ IsWriteByte(o, 2, pid, a, b)
    /\ IsOp(o[4], "setregs", pid) /\ o[4].addr = a
    /\ IsOp(o[5], "step", pid)
    /\ IsOp(o[6], "waitpid", pid) /\ o[6].res = "Stopped"
    /\ IsOp(o[7], "getregs", pid)
    /\ IsWriteByte(o, 8, pid, a, TrapByte)
    /\ IsOp(o[10], "cont", pid)
    /\ IsLastWait(o, 11, pid)

\* the OS calls of a continue from a stop that is not behind a known breakpoint
PlainOrder(o, pid) ==
    /\ Len(o) >= 3
    /\ IsOp(o[1], "getregs", pid)
    /\ IsOp(o[2], "cont", pid)
    /\ IsLastWait(o, 3, pid)
    /\ \A j \in 1 .. Len(o) : o[j].op \notin {"poke", "setregs", "step"}

\* C12 (breakpoint-resume ordering): a continue command given with the tracee
\* stopped and rip-1 = A' a key of the shadow map issues, after reading rip,
\* exactly: write of the recorded byte at A', set rip to A', single-step, wait,
\* write of 0xCC at A', continue, wait (each write being the read and the write
\* of the word of A', each wait reading the registers of a stop), all within
\* the one command, unless a step fails and the debugger aborts; with rip-1 not
\* a key it issues only continue and wait and writes neither memory nor registers.
C12_ResumeOrdering ==
    [][ (cmd'.kind = "continue" /\ StoppedAtPrompt /\ dbg' # "panicked") =>
            IF Tracee.rip - 1 \in DOMAIN inferior.replaced_values
              THEN ResumeOrder(ops', inferior.child, Tracee.rip - 1,
                               inferior.replaced_values[Tracee.rip - 1])
              ELSE PlainOrder(ops', inferior.child) ]_vars

\* a continue has crossed a breakpoint and the tracee has run on to its next event
C12_Witness ==
    /\ cmd.kind = "continue"
    /\ dbg = "prompt"
    /\ Len(ops) >= 11
    /\ ops[4].op = "setregs" /\ ops[5].op = "step"
    /\ ops[9].op = "poke" /\ ops[9].ok
    /\ ops[10].op = "cont" /\ ops[10].ok

\* C13 as stated (shadow map holds the original bytes): every entry A -> b of
\* the shadow map has b equal to the byte the target's code has at A before
\* any trap byte is written there, whatever break, run and continue commands
\* were given, break commands naming one address twice included.
C13_ShadowHoldsOriginal ==
    inferior.some =>
        \A a \in DOMAIN inferior.replaced_values :
            inferior.replaced_values[a] = Text(target)[a]

\* the word at addr lies in the tracee's mapped memory
WordMapped(addr) == WordIn(Image(target), addr)

\* op o was issued with its tracee in ptrace-stop: a register request, a step
\* or a continue fails only on a tracee that is not stopped, a peek or a poke
\* fails only for that or for an unmapped word
IssuedWhileStopped(o) ==
    /\ o.op \in {"getregs", "setregs", "step", "cont"} => o.ok
    /\ o.op \in {"peek", "poke"} => (o.ok \/ ~WordMapped(o.addr))

\* C14 as stated (tracee operations only while stopped): every peek, poke,
\* getregs, setregs, step and cont of every command is issued while the tracee
\* is stopped; none is issued by continue or break once the tracee has exited
\* or been killed and the session still holds its controller.
C14_TraceeOpsOnlyWhileStopped ==
    \A j \in 1 .. Len(ops) : IssuedWhileStopped(ops[j])

\* op j of log o belongs to the resume sequence: it precedes the final continue
InResumeSequence(o, j) == \A i \in 1 .. j : o[i].op # "cont"

\* C15 (failures of the resume sequence are fatal): when a call of the resume
\* sequence of a continue command fails (the read of the registers, a read or
\* a write of the word of the breakpoint on restoring or re-arming, the set of
\* rip, the single-step, the wait after it), the debugger aborts at that call:
\* it is the last call of the command and no continue follows it.
C15_ResumeFailureFatal ==
    [][ (cmd'.kind = "continue" /\ dbg = "prompt" /\ inferior.some) =>
            \A j \in 1 .. Len(ops') :
                (InResumeSequence(ops', j) /\ ~ops'[j].ok) =>
                    (dbg' = "panicked" /\ j = Len(ops')) ]_vars

\* the stepped instruction made the tracee exit: the re-arm failed on its read
\* and the debugger aborted there
C15_Witness ==
    /\ cmd.kind = "continue"
    /\ dbg = "panicked"
    /\ Len(ops) = 7
    /\ ops[5].op = "step" /\ ops[5].ok
    /\ ops[6].op = "waitpid" /\ ops[6].res = "Exited"
    /\ ops[7].op = "peek" /\ ~ops[7].ok

\* the failed reads and writes of tracee memory in log o
FailedPatches(o) == {j \in 1 .. Len(o) : o[j].op \in {"peek", "poke"} /\ ~o[j].ok}

\* lines reports that the breakpoint at a could not be set
ReportsFailureAt(lines, a) ==
    \E i \in 1 .. Len(lines) : lines[i].t = "failed to set breakpoint" /\ lines[i].addr = a

\* C16 (a failed installation installs nothing): when the read or the write of
\* write_byte fails on installing a breakpoint, by a break command given while
\* the session holds a controller or by the installation loop of a launch,
\* the shadow map gets no entry for the address (a break command leaves map
\* and tracee as they were, a launch neither records an address of the failed
\* word nor writes it), the failure is reported and the debugger is back at
\* the prompt.
C16_FailedInstallNoEffect ==
    [][ /\ (cmd'.kind = "break" /\ inferior.some /\ FailedPatches(ops') # {}) =>
              /\ inferior' = inferior
              /\ children' = children
              /\ ReportsFailureAt(out', Last(breakpoints'))
              /\ dbg' = "prompt"
        /\ (cmd'.kind = "run" /\ dbg' = "prompt" /\ inferior'.some) =>
              \A j \in FailedPatches(ops') :
                  ops'[j].pid = inferior'.child =>
                      /\ \A a \in DOMAIN inferior'.replaced_values :
                             align_addr_to_word(a) # ops'[j].addr
                      /\ \A i \in 1 .. Len(ops') :
                             IsOp(ops'[i], "poke", ops'[j].pid) => ops'[i].addr # ops'[j].addr
                      /\ \E i \in 1 .. Len(breakpoints) :
                             /\ align_addr_to_word(breakpoints[i]) = ops'[j].addr
                             /\ ReportsFailureAt(out', breakpoints[i])
      ]_vars

\* a break command on a stopped tracee names an unmapped address: the read
\* fails, the failure is reported and the map is empty as before
C16_Witness ==
    /\ cmd.kind = "break"
    /\ StoppedAtPrompt
    /\ FailedPatches(ops) # {}
    /\ ReportsFailureAt(out, Last(breakpoints))
    /\ Last(breakpoints) \notin DOMAIN inferior.replaced_values

RECURSIVE FrameChain(_, _, _)
\* the instruction pointers of the frames of a tracee with memory mem, from
\* the innermost frame at rip with frame pointer rbp outwards, up to the first
\* frame in main or to the first frame whose saved slots are not mapped
FrameChain(mem, rip, rbp) ==
    IF \/ get_function_from_addr(rip) = Some("main")
       \/ ~WordIn(mem, rbp + WordSize)
       \/ ~WordIn(mem, rbp)
      THEN << rip >>
      ELSE << rip >> \o FrameChain(mem, AsUsize(WordAt(mem, rbp + WordSize)),
                                   AsUsize(WordAt(mem, rbp)))

ReachesMain(chain) == get_function_from_addr(Last(chain)) = Some("main")

\* C17 (backtrace): a backtrace command on a stopped tracee whose frame chain
\* reaches main after n hops prints exactly the n+1 frames, innermost first,
\* each next frame taken from the return address at [rbp+8] and the saved
\* frame pointer at [rbp], and stops after the first frame in main; when a
\* slot cannot be read the walk ends there with the error of the read; the
\* command only reads registers and memory: tracee, shadow map and breakpoint
\* list are unchanged.
C17_BacktraceWalk ==
    [][ (cmd'.kind = "backtrace" /\ StoppedAtPrompt) =>
            LET chain == FrameChain(Tracee.mem, Tracee.rip, Tracee.rbp)
            IN  /\ Len(out') = Len(chain)
                /\ \A i \in 1 .. Len(chain) :
                       /\ out'[i].t = "%rip"
                       /\ out'[i].addr = chain[i]
                       /\ Some(out'[i].fn) = get_function_from_addr(chain[i])
                       /\ Some(out'[i].n) = get_line_from_addr(chain[i])
                /\ children' = children
                /\ inferior' = inferior
                /\ breakpoints' = breakpoints
                /\ dbg' = "prompt"
                /\ \A j \in 1 .. Len(ops') : ops'[j].op \in {"getregs", "peek"}
                /\ Cardinality(OpIdx("peek")') \in {2 * (Len(chain) - 1), 2 * (Len(chain) - 1) + 1}
                /\ IF ReachesMain(chain)
                     THEN /\ \A j \in 1 .. Len(ops') : ops'[j].ok
                          /\ print_backtrace(World, inferior.child).res = "Ok"
                     ELSE /\ FailedPatches(ops') = {Len(ops')}
                          /\ print_backtrace(World, inferior.child).res = "Err" ]_vars

\* a backtrace taken inside greet has printed the frame of greet and then the
\* frame of main at the return address
C17_Witness ==
    /\ cmd.kind = "backtrace"
    /\ dbg = "prompt"
    /\ Len(out) = 2
    /\ out[1].fn = "greet" /\ out[2].fn = "main"
    /\ out[2].addr = 18
    /\ Cardinality(OpIdx("peek")) = 2

\* the session holds the controller of child pid
Controls(pid) == inferior.some /\ inferior.child = pid

\* C18 as stated (no child is left behind): every spawned child has been
\* waited for to its end, after its own exit or after a kill, by the time the
\* session holds no controller for it or has ended; this includes a child
\* whose launch failed because its first stop was not the SIGTRAP stop.
C18_ChildrenReleased ==
    \A pid \in DOMAIN children :
        (dbg = "exited" \/ ~Controls(pid)) => children[pid].state = "reaped"

\* C19 as stated (rewind only after a breakpoint trap): a continue command
\* given while the tracee is stopped by a signal other than the SIGTRAP of a
\* trap byte does not restore a byte, does not set rip and does not
\* single-step, whatever breakpoints were added since the stop.
C19_RewindOnlyAfterTrap ==
    [][ (cmd'.kind = "continue" /\ StoppedAtPrompt /\ Tracee.sig # "SIGTRAP") =>
            \A j \in 1 .. Len(ops') : ops'[j].op \notin {"poke", "setregs", "step"} ]_vars

\* C20 as stated (commands without a controller are harmless): continue,
\* backtrace and break given while the session holds no controller leave the
\* debugger at the prompt and call nothing on a tracee; continue and backtrace
\* change nothing of the session, break changes at most the breakpoint list,
\* by appending the address its spec resolves to.
C20_NoControllerHarmless ==
    [][ (dbg = "prompt" /\ ~inferior.some /\ cmd'.kind \in {"continue", "backtrace", "break"}) =>
            /\ dbg' = "prompt"
            /\ ops' = << >>
            /\ children' = children
            /\ inferior' = inferior
            /\ cmd'.kind \in {"continue", "backtrace"} => breakpoints' = breakpoints
            /\ cmd'.kind = "break" =>
                  \/ breakpoints' = breakpoints
                  \/ /\ parse_addr(cmd'.spec).some
                     /\ breakpoints' = Append(breakpoints, parse_addr(cmd'.spec).val) ]_vars

====
